---- MODULE Spec2Model ----
(***************************************************************************)
(* Model of netlify/functions/chat.js: the chat handler and its quota      *)
(* tracker (enforceRateLimit) over the Netlify Blobs store.                *)
(*                                                                         *)
(* Time is counted in ticks; one day is TicksPerDay ticks, so the window   *)
(* of 7 * 24 * 60 * 60 * 1000 ms is 7 * TicksPerDay ticks.  Each request   *)
(* is an independent execution; its steps are the code between two awaits *)
(* (store.get, store.set, fetch).                                          *)
(***************************************************************************)
EXTENDS Integers, FiniteSets, Sequences, TLC

VARIABLES
    now,          \* the wall clock read by Date.now()
    apiKey,       \* OPENAI_API_KEY is configured (process.env, fixed per deployment)
    store,        \* the blob store "chat-rate-limit": key -> record or NULL
    req,          \* the in-flight executions of exports.handler, one per slot
    allowedSince, \* history: key -> (resetAt of a created window -> requests allowed since)
    started,      \* history: requests begun, counted where a specification bounds them
    probe         \* one request taken through the pure steps of the handler:
                  \* its inputs, the identity resolved and the upstream request built

vars == <<now, apiKey, store, req, allowedSince, started, probe>>

----------------------------------------------------------------------------
(* Bounds of the model *)

TicksPerDay == 2
MaxNow == 1
MaxNowSeq == 16
MaxNowStall == 3
MaxRequests == 3

(* Program constants *)

RATE_LIMIT == 20
WINDOW_DAYS == 7
DAY_MS == TicksPerDay
RATE_LIMIT_WINDOW_MS == WINDOW_DAYS * DAY_MS

\* concurrent executions of the handler
Slots == {1, 2}
SeqSlots == {1}

\* history counters saturate here (above every count the program can store)
AllowedCap == RATE_LIMIT + 2

----------------------------------------------------------------------------
(* Values *)

\* what store.get(key, {type: "json"}) resolves to when the key is absent
NULL == [present |-> FALSE, count |-> 0, resetAt |-> 0]

Rec(c, r) == [present |-> TRUE, count |-> c, resetAt |-> r]

Min(a, b) == IF a <= b THEN a ELSE b

\* Math.ceil(a / b) for b > 0, on integers of either sign
ceilDiv(a, b) == -((-a) \div b)

----------------------------------------------------------------------------
(* Strings are sequences of characters; "" and an absent field are both <<>>  *)
(* (the code tests them only for truthiness or typeof === "string").         *)

SP == " "
COMMA == ","

RECURSIVE trimStart(_)
trimStart(s) == IF s # <<>> /\ Head(s) = SP THEN trimStart(Tail(s)) ELSE s

RECURSIVE trimEnd(_)
trimEnd(s) ==
    IF s # <<>> /\ s[Len(s)] = SP THEN trimEnd(SubSeq(s, 1, Len(s) - 1)) ELSE s

\* String.prototype.trim
trim(s) == trimEnd(trimStart(s))

\* s.split(",")[0]: the text before the first comma
RECURSIVE firstField(_)
firstField(s) ==
    IF s = <<>> \/ Head(s) = COMMA THEN <<>> ELSE <<Head(s)>> \o firstField(Tail(s))

\* a || b on strings: the first truthy (non-empty) one
Or(a, b) == IF a # <<>> THEN a ELSE b

getClientIp(event) ==
    IF event.xForwardedFor # <<>>
    THEN trim(firstField(event.xForwardedFor))
    ELSE Or(event.clientIp, event.xRealIp)

ANONYMOUS == <<"anonymous">>

\* userId > IP > anonymous
userIdentifier(event) == Or(trim(event.userId), Or(getClientIp(event), ANONYMOUS))

\* crypto.createHash("sha256").update(id).digest("hex"): one-way, injective here
sha256(id) == <<"sha256", id>>

\* key = `user-${hashedUser}`
keyOf(hashedUser) == <<"user-", hashedUser>>

keyOfEvent(event) == keyOf(sha256(userIdentifier(event)))

----------------------------------------------------------------------------
(* Requests *)

Event(m, json, msg, uid, xff, cip, rip) ==
    [httpMethod |-> m, bodyIsJson |-> json, message |-> msg, userId |-> uid,
     xForwardedFor |-> xff, clientIp |-> cip, xRealIp |-> rip]

ALICE == <<"alice">>
IP1 == <<"1.1.1.1">>

\* a well-formed chat request of the identity "alice"
AliceEvent == Event("POST", TRUE, <<"hi">>, ALICE, <<>>, <<>>, <<>>)

\* requests that all resolve to "alice": valid ones, and ones answered early
EventsOneIdentity ==
    { AliceEvent,
      Event("POST", TRUE, <<"hi">>, <<SP, "alice", SP>>, IP1, <<>>, <<>>),
      Event("OPTIONS", TRUE, <<"hi">>, ALICE, <<>>, <<>>, <<>>),
      Event("GET", TRUE, <<"hi">>, ALICE, <<>>, <<>>, <<>>),
      Event("POST", FALSE, <<>>, <<>>, <<>>, <<>>, <<>>),
      Event("POST", TRUE, <<SP>>, ALICE, <<>>, <<>>, <<>>),
      Event("POST", TRUE, <<>>, ALICE, <<>>, <<>>, <<>>) }

Identities == {ALICE, ANONYMOUS, IP1}

Keys == {keyOf(sha256(i)) : i \in Identities}

AliceKey == keyOf(sha256(ALICE))

NoKey == keyOf(sha256(<<>>))

----------------------------------------------------------------------------
(* Responses of the handler *)

NoResp == [status |-> 0, stage |-> "none", days |-> 0]

Resp(status, stage) == [status |-> status, stage |-> stage, days |-> 0]

validateNoTrim(event, keySet) ==
    IF event.httpMethod = "OPTIONS" THEN Resp(200, "preflight")
    ELSE IF event.httpMethod # "POST" THEN Resp(405, "method")
    ELSE IF ~keySet THEN Resp(500, "config")
    ELSE IF ~event.bodyIsJson THEN Resp(400, "input")
    ELSE IF event.message = <<>> THEN Resp(400, "input")
    ELSE NoResp

\* lines 20-66: the answers given before the identity is resolved
validate(event, keySet) ==
    IF event.httpMethod = "OPTIONS" THEN Resp(200, "preflight")
    ELSE IF event.httpMethod # "POST" THEN Resp(405, "method")
    ELSE IF ~keySet THEN Resp(500, "config")
    ELSE IF ~event.bodyIsJson THEN Resp(400, "input")
    ELSE IF trim(event.message) = <<>> THEN Resp(400, "input")
    ELSE NoResp

----------------------------------------------------------------------------
(* The upstream request *)

\* a JSON value where the code asks for its type: a number is kept in tenths
Num(tenths) == [type |-> "number", tenths |-> tenths]
Undefined == [type |-> "undefined", tenths |-> 0]
Text == [type |-> "string", tenths |-> 0]

\* payload.messages: whether it is an array, and its items
NoMessages == [isArray |-> FALSE, items |-> <<>>]
Messages(items) == [isArray |-> TRUE, items |-> items]

Turn(role, content) == [role |-> role, content |-> content]

\* the fields of the parsed body that buildOpenAiRequest reads besides message
Payload(messages, model, systemPrompt, temperature) ==
    [messages |-> messages, model |-> model, systemPrompt |-> systemPrompt,
     temperature |-> temperature]

OPENAI_MODEL == <<"gpt-4o-mini">>
DEFAULT_SYSTEM_PROMPT ==
    <<"You are a helpful assistant that responds briefly and professionally.">>
\* 0.7
DEFAULT_TEMPERATURE == Num(7)

temperatureOfTruthy(payload) ==
    IF payload.temperature.type = "number" /\ payload.temperature.tenths # 0
    THEN payload.temperature
    ELSE DEFAULT_TEMPERATURE

\* typeof payload.temperature === "number" ? payload.temperature : 0.7
temperatureOf(payload) ==
    IF payload.temperature.type = "number" THEN payload.temperature
    ELSE DEFAULT_TEMPERATURE

buildOpenAiRequest(payload, userMessage) ==
    IF payload.messages.isArray /\ Len(payload.messages.items) > 0
    THEN [model |-> Or(payload.model, OPENAI_MODEL),
          messages |-> payload.messages.items,
          temperature |-> temperatureOf(payload)]
    ELSE [model |-> Or(payload.model, OPENAI_MODEL),
          messages |-> <<Turn("system", Or(payload.systemPrompt, DEFAULT_SYSTEM_PROMPT)),
                         Turn("user", userMessage)>>,
          temperature |-> temperatureOf(payload)]

NoRequest == [model |-> <<>>, messages |-> <<>>, temperature |-> Undefined]

----------------------------------------------------------------------------
(* The upstream API as the handler sees it *)

NoUp == [kind |-> "none", status |-> 0, body |-> "none"]

UpstreamStatuses == {200, 201, 400, 429, 500}

\* completion: {choices: [{message: {content: "..."}}]}; no_choices: {};
\* json_null: the text "null"; not_json: text that JSON.parse rejects;
\* unreadable: reading the body fails
UpstreamBodies == {"completion", "no_choices", "json_null", "not_json", "unreadable"}

UpstreamOutcomes ==
    {[kind |-> "network_error", status |-> 0, body |-> "none"]}
    \cup {[kind |-> "response", status |-> s, body |-> b] :
              s \in UpstreamStatuses, b \in UpstreamBodies}

\* one outcome of each kind the handler tells apart
UpstreamFew ==
    { [kind |-> "network_error", status |-> 0, body |-> "none"],
      [kind |-> "response", status |-> 200, body |-> "completion"],
      [kind |-> "response", status |-> 200, body |-> "not_json"],
      [kind |-> "response", status |-> 429, body |-> "completion"] }

okOnly200(status) == status = 200

\* the upstream call fails: a network-level failure or a non-2xx status
UpstreamFailures ==
    { [kind |-> "network_error", status |-> 0, body |-> "none"],
      [kind |-> "response", status |-> 400, body |-> "completion"],
      [kind |-> "response", status |-> 429, body |-> "completion"],
      [kind |-> "response", status |-> 500, body |-> "completion"] }

\* response.ok
ok(status) == 200 <= status /\ status <= 299

\* await response.json() followed by data.choices?.[0]?... completes
jsonReplyReadable(body) == body \in {"completion", "no_choices"}

\* lines 98-150: the status the handler answers with after calling fetch
upstreamStatus(up) ==
    IF up.kind = "network_error" THEN 502
    ELSE IF ~ok(up.status)
         THEN (IF up.body = "unreadable" THEN 502 ELSE up.status)
         ELSE (IF jsonReplyReadable(up.body) THEN 200 ELSE 502)

----------------------------------------------------------------------------
(* The quota tracker's decisions (enforceRateLimit, lines 166-240) *)

isActiveAlways(record, t) == record.present /\ record.resetAt # 0

isActiveInclusive(record, t) ==
    record.present /\ record.resetAt # 0 /\ record.resetAt >= t

\* line 196: record && record.resetAt && Number(record.resetAt) > now
isActive(record, t) == record.present /\ record.resetAt # 0 /\ record.resetAt > t

overLimitOffByOne(record) == record.count > RATE_LIMIT

\* line 197: record.count >= RATE_LIMIT
overLimit(record) == record.count >= RATE_LIMIT

daysLeftFloor(record, t) == (record.resetAt - t) \div DAY_MS

\* lines 198-199: Math.ceil((record.resetAt - now) / (24 * 60 * 60 * 1000))
daysLeft(record, t) == ceilDiv(record.resetAt - t, DAY_MS)

\* lines 200-204: the error thrown for a caller over the limit
rateLimitError(record, t) == [statusCode |-> 429, days |-> daysLeft(record, t)]

incrementedTwice(record) == Rec(record.count + 2, record.resetAt)

\* lines 211-214: {count: record.count + 1, resetAt: record.resetAt}
incremented(record) == Rec(record.count + 1, record.resetAt)

\* lines 229-232: {count: 1, resetAt: now + RATE_LIMIT_WINDOW_MS}
freshRecord(t) == Rec(1, t + RATE_LIMIT_WINDOW_MS)

recordToWriteSliding(record, t) ==
    IF isActive(record, t)
    THEN Rec(record.count + 1, t + RATE_LIMIT_WINDOW_MS)
    ELSE freshRecord(t)

\* the record the request goes on to store.set, given what it read
recordToWrite(record, t) ==
    IF isActive(record, t) THEN incremented(record) ELSE freshRecord(t)

\* line 186: what `record` becomes when store.get resolves ("ok") or rejects; a
\* rejected promise is swallowed by .catch(() => null)
recordRead(outcome, stored) == IF outcome = "ok" THEN stored ELSE NULL

storeSetMerging(stored, value) ==
    IF stored.present /\ stored.resetAt = value.resetAt /\ stored.count >= value.count
    THEN Rec(stored.count + 1, stored.resetAt)
    ELSE value

\* lines 209-215, 227-233: store.set(key, value) replaces whatever is stored
storeSet(stored, value) == value

onStoreInitErrorThrows == [statusCode |-> 500, days |-> 0]

\* lines 171-178: getStore threw: log and return (no error reaches the handler)
onStoreInitError == [statusCode |-> 0, days |-> 0]

NoError == [statusCode |-> 0, days |-> 0]

afterStoreSetRetry(outcome) == IF outcome = "throw" THEN "set" ELSE "fetch"

\* lines 208-223, 226-240: whether store.set resolved or threw, enforceRateLimit
\* returns and the handler goes on to fetch
afterStoreSet(outcome) == "fetch"

storeAfterUpstreamRefund(stored, up) ==
    IF up.kind = "network_error" /\ stored.present /\ stored.count > 1
    THEN Rec(stored.count - 1, stored.resetAt)
    ELSE stored

\* lines 98-150: the handler does not touch the store after the upstream call
storeAfterUpstream(stored, up) == stored

\* lines 82-94: the handler answers only an error that carries a statusCode
handlerCatch(rateErr) ==
    IF rateErr.statusCode # 0
    THEN [status |-> rateErr.statusCode, stage |-> "quota", days |-> rateErr.days]
    ELSE NoResp

----------------------------------------------------------------------------
(* One execution of the handler *)

\* pc: idle, get (awaiting store.get), set (awaiting store.set), fetch (awaiting
\* the upstream call), done (answered).  key, now, record, pending are the
\* locals of enforceRateLimit; fail, setAt, up record what happened to the
\* request; gets, sets, fetches count its calls of store.get, store.set and fetch.
Idle ==
    [pc |-> "idle", key |-> NoKey, now |-> 0, record |-> NULL, pending |-> NULL,
     fail |-> "none", setAt |-> -1, up |-> NoUp, resp |-> NoResp,
     gets |-> 0, sets |-> 0, fetches |-> 0]

\* one more call, counted up to 2
Again(n) == Min(n + 1, 2)

NoWindows == [r \in {} |-> 0]

\* history: one more request of the identity was allowed; newR, when not 0, is
\* the resetAt of the fresh record it stored
Allowed(f, newR) ==
    [r \in DOMAIN f \cup (IF newR = 0 THEN {} ELSE {newR}) |->
        IF r \in DOMAIN f THEN Min(f[r] + 1, AllowedCap) ELSE 1]

\* lines 20-81 and 166-186: the request is validated, the identity resolved,
\* getStore called, Date.now() sampled and store.get called
Start(p, event, init) ==
    /\ req[p].pc = "idle"
    /\ LET early == validate(event, apiKey)
           k == keyOfEvent(event)
           caught == handlerCatch(onStoreInitError)
       IN  IF early # NoResp
           THEN /\ req' = [req EXCEPT ![p] = [Idle EXCEPT !.pc = "done", !.resp = early]]
                /\ UNCHANGED allowedSince
           ELSE IF init = "throw" /\ caught # NoResp
           THEN /\ req' = [req EXCEPT ![p] =
                              [Idle EXCEPT !.pc = "done", !.key = k, !.fail = "init",
                                           !.resp = caught]]
                /\ UNCHANGED allowedSince
           ELSE IF init = "throw"
           THEN /\ req' = [req EXCEPT ![p] =
                              [Idle EXCEPT !.pc = "fetch", !.key = k, !.fail = "init",
                                           !.fetches = 1]]
                /\ allowedSince' = [allowedSince EXCEPT ![k] = Allowed(@, 0)]
           ELSE /\ req' = [req EXCEPT ![p] =
                              [Idle EXCEPT !.pc = "get", !.key = k, !.now = now,
                                           !.gets = 1]]
                /\ UNCHANGED allowedSince
    /\ UNCHANGED <<probe, now, apiKey, store>>

\* lines 183-205 and 82-96: store.get ends (resolves, rejects or throws) and the
\* code up to the next await runs: return and call fetch, throw the 429 that the
\* handler answers, or call store.set
GetReturn(p, outcome) ==
    /\ req[p].pc = "get"
    /\ LET r == req[p]
           record == recordRead(outcome, store[r.key])
           failed == IF outcome = "ok" THEN "none" ELSE "get_reject"
       IN  IF outcome = "throw"
           THEN /\ req' = [req EXCEPT ![p] =
                              [r EXCEPT !.pc = "fetch", !.fail = "get_throw",
                                        !.fetches = Again(r.fetches)]]
                /\ allowedSince' = [allowedSince EXCEPT ![r.key] = Allowed(@, 0)]
           ELSE IF isActive(record, r.now) /\ overLimit(record)
           THEN /\ req' = [req EXCEPT ![p] =
                              [r EXCEPT !.pc = "done", !.record = record, !.fail = failed,
                                        !.resp = handlerCatch(rateLimitError(record, r.now))]]
                /\ UNCHANGED allowedSince
           ELSE /\ req' = [req EXCEPT ![p] =
                              [r EXCEPT !.pc = "set", !.record = record, !.fail = failed,
                                        !.pending = recordToWrite(record, r.now),
                                        !.sets = Again(r.sets)]]
                /\ UNCHANGED allowedSince
    /\ UNCHANGED <<probe, now, apiKey, store, started>>

\* lines 208-223 and 226-239, then 96-99: store.set ends, enforceRateLimit
\* returns and the handler calls fetch
SetReturn(p, outcome) ==
    /\ req[p].pc = "set"
    /\ LET r == req[p]
           written == outcome = "ok"
           newR == IF written /\ r.pending.count = 1 THEN r.pending.resetAt ELSE 0
       IN  /\ store' = IF written
                       THEN [store EXCEPT ![r.key] = storeSet(@, r.pending)]
                       ELSE store
           /\ allowedSince' = [allowedSince EXCEPT ![r.key] = Allowed(@, newR)]
           /\ req' = [req EXCEPT ![p] =
                         [r EXCEPT !.pc = afterStoreSet(outcome),
                                   !.setAt = IF written THEN now ELSE -1,
                                   !.fail = IF written THEN r.fail ELSE "set",
                                   !.sets = IF afterStoreSet(outcome) = "set"
                                            THEN Again(r.sets) ELSE r.sets,
                                   !.fetches = IF afterStoreSet(outcome) = "fetch"
                                               THEN Again(r.fetches) ELSE r.fetches]]
    /\ UNCHANGED <<probe, now, apiKey, started>>

\* lines 98-150: fetch ends and the handler shapes its answer
FetchReturn(p, up) ==
    /\ req[p].pc = "fetch"
    /\ req' = [req EXCEPT ![p] =
                  [Idle EXCEPT !.pc = "done", !.key = req[p].key, !.fail = req[p].fail,
                               !.gets = req[p].gets, !.sets = req[p].sets,
                               !.fetches = req[p].fetches,
                               !.up = up, !.resp = Resp(upstreamStatus(up), "upstream")]]
    /\ store' = [store EXCEPT ![req[p].key] = storeAfterUpstream(@, up)]
    /\ UNCHANGED <<probe, now, apiKey, allowedSince, started>>

\* the answer is delivered and the execution ends
Return(p) ==
    /\ req[p].pc = "done"
    /\ req' = [req EXCEPT ![p] = Idle]
    /\ UNCHANGED <<probe, now, apiKey, store, allowedSince, started>>

\* time passes
Tick(max) ==
    /\ now < max
    /\ now' = now + 1
    /\ UNCHANGED <<probe, apiKey, store, req, allowedSince, started>>

----------------------------------------------------------------------------
(* The pure steps of the handler, taken by one request *)

IP2 == <<"2.2.2.2">>
IP3 == <<"3.3.3.3">>

DefaultPayload == Payload(NoMessages, <<>>, <<>>, Undefined)

NoProbe ==
    [pc |-> "none", event |-> AliceEvent, payload |-> DefaultPayload,
     identity |-> <<>>, key |-> NoKey, openAiRequest |-> NoRequest]

\* payload.userId: absent, blank, plain, padded
UserIds == {<<>>, <<SP>>, ALICE, <<SP, "alice", SP>>}

\* x-forwarded-for: absent, blank, one address, a padded list, a list whose
\* first entry is empty or blank
ForwardedFors ==
    { <<>>, <<SP>>, IP1, <<SP>> \o IP1 \o <<COMMA, SP>> \o IP2,
      <<COMMA>> \o IP2, <<SP, COMMA>> \o IP2 }

\* well-formed chat requests with every combination of identity sources
IdentityEvents ==
    { Event("POST", TRUE, <<"hi">>, uid, xff, cip, rip) :
        uid \in UserIds, xff \in ForwardedFors, cip \in {<<>>, IP2}, rip \in {<<>>, IP3} }

\* payload.messages: absent, an empty array, one turn, a conversation
MessageLists ==
    { NoMessages, Messages(<<>>), Messages(<<Turn("user", <<"hello">>)>>),
      Messages(<<Turn("system", <<"be terse">>), Turn("user", <<"hello">>),
                 Turn("assistant", <<"hi">>), Turn("user", <<"more">>)>>) }

Temperatures == {Undefined, Text, Num(0), Num(7), Num(12)}

Payloads ==
    { Payload(ms, model, prompt, t) :
        ms \in MessageLists, model \in {<<>>, <<"gpt-4o">>},
        prompt \in {<<>>, <<"be terse">>}, t \in Temperatures }

\* payload.message of a well-formed request: plain or padded
UserMessages == {<<"hi">>, <<SP, "hi", SP>>}

ChatEvents ==
    { Event("POST", TRUE, msg, ALICE, <<>>, <<>>, <<>>) : msg \in UserMessages }

\* lines 68-77, 180: the identity and the key of its record
ResolveIdentity ==
    /\ probe.pc = "received"
    /\ validate(probe.event, apiKey) = NoResp
    /\ probe' = [probe EXCEPT !.pc = "resolved",
                              !.identity = userIdentifier(probe.event),
                              !.key = keyOfEvent(probe.event)]
    /\ UNCHANGED <<now, apiKey, store, req, allowedSince, started>>

\* lines 59, 96: the request sent upstream
BuildRequest ==
    /\ probe.pc = "resolved"
    /\ probe' = [probe EXCEPT !.pc = "built",
                              !.openAiRequest =
                                  buildOpenAiRequest(probe.payload, probe.event.message)]
    /\ UNCHANGED <<now, apiKey, store, req, allowedSince, started>>

----------------------------------------------------------------------------
(* Specifications *)

InitCommon ==
    /\ now = 0
    /\ apiKey \in BOOLEAN
    /\ req = [p \in Slots |-> Idle]
    /\ started = 0
    /\ probe = NoProbe

InitEmpty ==
    /\ InitCommon
    /\ store = [k \in Keys |-> NULL]
    /\ allowedSince = [k \in Keys |-> NoWindows]

\* records left by earlier requests handled one at a time (19 or 20 of them): a
\* window that ends at the next tick or one opened just now
InitCounts == {RATE_LIMIT - 1, RATE_LIMIT}
InitResets == {1, RATE_LIMIT_WINDOW_MS}

Init ==
    /\ InitCommon
    /\ \/ /\ store = [k \in Keys |-> NULL]
          /\ allowedSince = [k \in Keys |-> NoWindows]
       \/ \E c \in InitCounts, r \in InitResets :
             /\ store = [k \in Keys |-> IF k = AliceKey THEN Rec(c, r) ELSE NULL]
             /\ allowedSince =
                   [k \in Keys |-> IF k = AliceKey THEN [w \in {r} |-> c] ELSE NoWindows]

StartBounded(p, event, init) ==
    /\ started < MaxRequests
    /\ started' = started + 1
    /\ Start(p, event, init)

StartAlone(p, event, init) ==
    /\ \A q \in Slots : req[q].pc = "idle"
    /\ UNCHANGED started
    /\ Start(p, event, init)

StartAloneBounded(p, event, init) ==
    /\ \A q \in Slots : req[q].pc = "idle"
    /\ StartBounded(p, event, init)

\* concurrent requests, a store that can fail, a bounded number of requests
Next ==
    \/ Tick(MaxNow)
    \/ \E p \in Slots :
          \/ \E event \in EventsOneIdentity, init \in {"ok", "throw"} :
                StartBounded(p, event, init)
          \/ \E outcome \in {"ok", "reject", "throw"} : GetReturn(p, outcome)
          \/ \E outcome \in {"ok", "throw"} : SetReturn(p, outcome)
          \/ \E up \in UpstreamFew : FetchReturn(p, up)
          \/ Return(p)

Spec == Init /\ [][Next]_vars

\* the promise a request awaits (store.get, store.set, fetch) settles, and its
\* response is delivered
Settles(p) ==
    \/ \E outcome \in {"ok", "reject", "throw"} : GetReturn(p, outcome)
    \/ \E outcome \in {"ok", "throw"} : SetReturn(p, outcome)
    \/ \E up \in UpstreamFew : FetchReturn(p, up)
    \/ Return(p)

\* concurrent requests arriving together on an empty store, with store and
\* upstream failures, where no request waits for ever on a promise
NextFair ==
    \/ \E p \in Slots :
          \/ \E event \in EventsOneIdentity, init \in {"ok", "throw"} :
                StartBounded(p, event, init)
          \/ Settles(p)

SpecFair == InitEmpty /\ [][NextFair]_vars /\ \A p \in Slots : WF_vars(Settles(p))

\* requests handled one at a time over a working store, from an empty store
NextSeq ==
    \/ Tick(MaxNowSeq)
    \/ \E p \in SeqSlots :
          \/ \E event \in EventsOneIdentity : StartAlone(p, event, "ok")
          \/ GetReturn(p, "ok")
          \/ SetReturn(p, "ok")
          \/ \E up \in UpstreamOutcomes : FetchReturn(p, up)
          \/ Return(p)

SpecSeq == InitEmpty /\ [][NextSeq]_vars

\* a bounded number of requests handled one at a time over a store that can
\* fail, with every upstream outcome
NextUp ==
    \/ Tick(MaxNow)
    \/ \E p \in SeqSlots :
          \/ \E event \in EventsOneIdentity, init \in {"ok", "throw"} :
                StartAloneBounded(p, event, init)
          \/ \E outcome \in {"ok", "reject", "throw"} : GetReturn(p, outcome)
          \/ \E outcome \in {"ok", "throw"} : SetReturn(p, outcome)
          \/ \E up \in UpstreamOutcomes : FetchReturn(p, up)
          \/ Return(p)

SpecUp == Init /\ [][NextUp]_vars

\* SpecSeq with an upstream API that is down: every call fails
NextDown ==
    \/ Tick(MaxNowSeq)
    \/ \E p \in SeqSlots :
          \/ \E event \in EventsOneIdentity : StartAlone(p, event, "ok")
          \/ GetReturn(p, "ok")
          \/ SetReturn(p, "ok")
          \/ \E up \in UpstreamFailures : FetchReturn(p, up)
          \/ Return(p)

SpecDown == InitEmpty /\ [][NextDown]_vars

\* the first request of a behaviour, which may stay in flight while later ones run
StartFirst(p, event, init) ==
    /\ started = 0
    /\ started' = 1
    /\ Start(p, event, init)

\* one well-formed request that can stall at any await while well-formed requests
\* of the same identity are handled one at a time beside it; working store,
\* empty store at the start, any number of requests
NextStall ==
    \/ Tick(MaxNowStall)
    \/ StartFirst(2, AliceEvent, "ok")
    \/ /\ req[1].pc = "idle"
       /\ started = 1
       /\ Start(1, AliceEvent, "ok")
       /\ UNCHANGED started
    \/ \E p \in Slots :
          \/ GetReturn(p, "ok")
          \/ SetReturn(p, "ok")
          \/ FetchReturn(p, [kind |-> "response", status |-> 200, body |-> "completion"])
          \/ Return(p)

SpecStall == InitEmpty /\ [][NextStall]_vars

\* one well-formed request, drawn from every combination of identity sources
\* and of payload fields, taken through the pure steps
InitPure ==
    /\ now = 0
    /\ apiKey = TRUE
    /\ req = [p \in Slots |-> Idle]
    /\ started = 0
    /\ store = [k \in Keys |-> NULL]
    /\ allowedSince = [k \in Keys |-> NoWindows]
    /\ \/ \E e \in IdentityEvents :
             probe = [NoProbe EXCEPT !.pc = "received", !.event = e]
       \/ \E e \in ChatEvents, pl \in Payloads :
             probe = [NoProbe EXCEPT !.pc = "received", !.event = e, !.payload = pl]

NextPure ==
    \/ ResolveIdentity
    \/ BuildRequest

SpecPure == InitPure /\ [][NextPure]_vars

----------------------------------------------------------------------------
(* Claims *)

\* the windows of key k created so far that are still open at time t
OpenWindows(k, t) == {w \in DOMAIN allowedSince[k] : w > t}

\* the requests of key k allowed so far in the window open at time t
UsedIn(k, t) ==
    IF OpenWindows(k, t) = {} THEN 0
    ELSE LET w == CHOOSE w \in OpenWindows(k, t) : \A v \in OpenWindows(k, t) : v <= w
         IN  allowedSince[k][w]

\* C1: with a working store and requests handled one at a time, a request is
\* allowed exactly when fewer than 20 requests were allowed before it in its
\* window, so no window ever holds more than 20 allowed requests; the request
\* that finds 20 is answered 429 with a positive day count, read while
\* now < resetAt.
C1_FirstTwentyAllowed ==
    /\ \A k \in Keys : \A w \in OpenWindows(k, now) : allowedSince[k][w] <= RATE_LIMIT
    /\ \A p \in Slots :
          LET r == req[p]
              used == UsedIn(r.key, r.now)
          IN  /\ r.pc = "set" => used < RATE_LIMIT
              /\ r.pc = "fetch" => used <= RATE_LIMIT
              /\ (r.pc = "done" /\ r.resp.stage = "quota") =>
                    /\ used = RATE_LIMIT
                    /\ r.resp.status = 429
                    /\ r.resp.days > 0
                    /\ r.record.count = RATE_LIMIT
                    /\ r.now < r.record.resetAt

\* the 21st request of a second window is answered 429
C1_Witness ==
    \E p \in Slots :
        /\ req[p].pc = "done"
        /\ req[p].resp.status = 429
        /\ req[p].resp.stage = "quota"
        /\ req[p].record.resetAt > 2 * RATE_LIMIT_WINDOW_MS
        /\ allowedSince[req[p].key][req[p].record.resetAt] = RATE_LIMIT

\* the step in which slot p's store.get ended and the read worked
GetWorked(p) ==
    /\ req[p].pc = "get"
    /\ req'[p].pc # "get"
    /\ req'[p].fail = "none"

\* the step in which slot p's store.set ended, the read and the write having worked
SetWorked(p) ==
    /\ req[p].pc = "set"
    /\ req'[p].pc # "set"
    /\ req'[p].fail = "none"

\* C2: a request that read a record with resetAt > now and count < 20 over a
\* working store goes on to write, and writes exactly {count: read count + 1,
\* resetAt: read resetAt}; it is allowed (it goes on to the upstream call).
C2_IncrementKeepsReset ==
    [][\A p \in Slots :
          /\ (/\ GetWorked(p)
              /\ store[req[p].key].present
              /\ store[req[p].key].resetAt > req[p].now
              /\ store[req[p].key].count < RATE_LIMIT)
             => /\ req'[p].pc = "set"
                /\ req'[p].record = store[req[p].key]
          /\ (/\ SetWorked(p)
              /\ req[p].record.present
              /\ req[p].record.resetAt > req[p].now
              /\ req[p].record.count < RATE_LIMIT)
             => /\ store'[req[p].key] =
                      Rec(req[p].record.count + 1, req[p].record.resetAt)
                /\ req'[p].pc = "fetch"]_vars

\* a request sampled after time 0 has incremented the record of an earlier window
C2_Witness ==
    \E p \in Slots :
        /\ req[p].pc = "fetch"
        /\ req[p].fail = "none"
        /\ req[p].setAt >= 0
        /\ req[p].now > 0
        /\ req[p].record.present
        /\ req[p].record.resetAt = RATE_LIMIT_WINDOW_MS
        /\ store[req[p].key] = Rec(req[p].record.count + 1, RATE_LIMIT_WINDOW_MS)

\* C3: a request that finds no record, or a record with resetAt <= now, over
\* a working store is allowed and writes {count: 1, resetAt: now + 7 days},
\* whatever the count it read.
C3_ExpiredStartsFresh ==
    [][\A p \in Slots :
          /\ (/\ GetWorked(p)
              /\ ~(store[req[p].key].present /\ store[req[p].key].resetAt > req[p].now))
             => /\ req'[p].pc = "set"
                /\ req'[p].record = store[req[p].key]
          /\ (/\ SetWorked(p)
              /\ ~(req[p].record.present /\ req[p].record.resetAt > req[p].now))
             => /\ store'[req[p].key] = Rec(1, req[p].now + RATE_LIMIT_WINDOW_MS)
                /\ req'[p].pc = "fetch"]_vars

\* a used-up record is replaced by the request made exactly at its resetAt
C3_Witness ==
    \E p \in Slots :
        /\ req[p].pc = "fetch"
        /\ req[p].fail = "none"
        /\ req[p].setAt >= 0
        /\ req[p].record = Rec(RATE_LIMIT, 1)
        /\ req[p].now = 1
        /\ store[req[p].key] = Rec(1, 1 + RATE_LIMIT_WINDOW_MS)

\* C4: a request that met a store failure (getStore, store.get or store.set)
\* is never answered by the quota tracker: it goes on to the upstream call and
\* its answer is the upstream one.  The quota tracker answers only 429, and only
\* after a read that worked and returned resetAt > now and count >= 20.
C4_FailOpen ==
    \A p \in Slots :
        LET r == req[p]
        IN  /\ r.fail # "none" =>
                  /\ r.pc \in {"set", "fetch", "done"}
                  /\ r.resp.stage \in {"none", "upstream"}
                  /\ r.pc = "done" => (r.resp.stage = "upstream" /\ r.up # NoUp)
            /\ r.resp.stage = "quota" =>
                  /\ r.resp.status = 429
                  /\ r.fail = "none"
                  /\ r.record.present
                  /\ r.record.resetAt > r.now
                  /\ r.record.count >= RATE_LIMIT

\* a caller over the limit is answered 200 because store.get threw
C4_Witness ==
    \E p \in Slots :
        /\ req[p].pc = "done"
        /\ req[p].fail = "get_throw"
        /\ req[p].resp = Resp(200, "upstream")
        /\ store[req[p].key].count = RATE_LIMIT
        /\ store[req[p].key].resetAt > now

\* slot p has stored the record it computed
Wrote(p) == req[p].pc = "fetch" /\ req[p].setAt >= 0

\* C5: a request whose store.get failed (rejected or threw) leaves the stored
\* record of its identity as it is: it writes nothing.
C5_GetFailureWritesNothing ==
    [][\A p \in Slots :
          (req[p].fail \in {"get_reject", "get_throw"} /\ req'[p] # req[p])
             => store'[req[p].key] = store[req[p].key]]_vars

\* C6: when two requests of one identity read the same record before either
\* writes, both are allowed and the second write stores count 1 or read
\* count + 1: the two requests raise the stored count by at most 1.
C6_LostUpdate ==
    [][\A p, q \in Slots :
          (/\ p # q
           /\ Wrote(p)
           /\ req[q].key = req[p].key
           /\ req[q].record = req[p].record
           /\ store[req[p].key] = req[p].pending
           /\ SetWorked(q))
             => /\ store'[req[q].key].count \in {1, req[q].record.count + 1}
                /\ req'[q].pc = "fetch"
                /\ req'[p].pc = "fetch"]_vars

\* two requests read count 19 and both stored 20: 21 requests were allowed in
\* a window that is still open
C6_Witness ==
    \E p, q \in Slots :
        /\ p # q
        /\ Wrote(p)
        /\ Wrote(q)
        /\ req[p].key = req[q].key
        /\ req[p].record = req[q].record
        /\ req[p].record.count = RATE_LIMIT - 1
        /\ store[req[p].key].count = RATE_LIMIT
        /\ store[req[p].key].resetAt > now
        /\ allowedSince[req[p].key][store[req[p].key].resetAt] > RATE_LIMIT

\* the stored count of key k exceeds the requests allowed since its window was created
OverCount(k) ==
    /\ store[k].present
    /\ \/ store[k].resetAt \notin DOMAIN allowedSince[k]
       \/ store[k].count > allowedSince[k][store[k].resetAt]

\* slots p and q raced on one record and time advanced between p's read and
\* its write: both read the same record, q wrote first, p wrote after a tick
StaleWrite(p, q) ==
    /\ p # q
    /\ Wrote(p)
    /\ Wrote(q)
    /\ req[p].fail = "none"
    /\ req[q].fail = "none"
    /\ req[p].key = req[q].key
    /\ req[p].record = req[q].record
    /\ req[q].setAt <= req[p].setAt
    /\ req[p].now < req[p].setAt

IncrementWrite(p) ==
    /\ SetWorked(p)
    /\ req[p].record.present
    /\ store'[req[p].key] = Rec(req[p].record.count + 1, req[p].record.resetAt)

\* C8, as stated: an increment is written only while the current time is
\* before the record's resetAt.
C8_IncrementOnlyBeforeReset ==
    [][\A p \in Slots : IncrementWrite(p) => now < req[p].record.resetAt]_vars

\* C8, as amended: an increment is written only by a request whose sampled now
\* (Date.now() taken before the read) is before the resetAt it read; a request
\* whose sampled now is at or after it writes {1, sampled now + 7 days}.
C8_IncrementOnlyIfSampledBeforeReset ==
    [][\A p \in Slots :
          /\ IncrementWrite(p) => req[p].now < req[p].record.resetAt
          /\ (SetWorked(p) /\ req[p].record.present
                /\ req[p].now >= req[p].record.resetAt)
             => store'[req[p].key] = Rec(1, req[p].now + RATE_LIMIT_WINDOW_MS)]_vars

\* an increment was stored when the clock had reached the record's resetAt
C8_Witness ==
    \E p \in Slots :
        /\ Wrote(p)
        /\ req[p].fail = "none"
        /\ req[p].record.present
        /\ req[p].pending = Rec(req[p].record.count + 1, req[p].record.resetAt)
        /\ req[p].now < req[p].record.resetAt
        /\ req[p].setAt >= req[p].record.resetAt

\* d is msLeft rounded up to whole days
RoundedUpDays(d, msLeft) == d * DAY_MS >= msLeft /\ (d - 1) * DAY_MS < msLeft

\* C9, as stated: the day count of a rejection is the remaining time
\* resetAt - now rounded up to whole days and lies between 1 and 7.
C9_DaysBetweenOneAndSeven ==
    \A p \in Slots :
        req[p].resp.stage = "quota" =>
            /\ RoundedUpDays(req[p].resp.days, req[p].record.resetAt - req[p].now)
            /\ 1 <= req[p].resp.days
            /\ req[p].resp.days <= WINDOW_DAYS

\* C9, as amended: the day count is resetAt - now rounded up to whole days, now
\* being the time the request sampled before its read; it is at least 1, and at
\* most 7 when that time is not before the window was opened (resetAt - 7 days).
C9_DaysRoundedUp ==
    \A p \in Slots :
        req[p].resp.stage = "quota" =>
            /\ RoundedUpDays(req[p].resp.days, req[p].record.resetAt - req[p].now)
            /\ 1 <= req[p].resp.days
            /\ req[p].now + RATE_LIMIT_WINDOW_MS >= req[p].record.resetAt
                  => req[p].resp.days <= WINDOW_DAYS

\* a rejection whose remaining time is not a whole number of days, within the window
C9_Witness ==
    \E p \in Slots :
        /\ req[p].resp.stage = "quota"
        /\ req[p].now + RATE_LIMIT_WINDOW_MS > req[p].record.resetAt
        /\ req[p].resp.days * DAY_MS > req[p].record.resetAt - req[p].now
        /\ req[p].resp.days <= WINDOW_DAYS

\* the status C10 expects for an upstream outcome, as amended: a 2xx answer
\* gives 200 only when its body is readable JSON holding a reply
ExpectedStatus(up) ==
    CASE up.kind = "network_error" -> 502
      [] up.body = "unreadable" -> 502
      [] up.status \in 200..299 /\ up.body \in {"not_json", "json_null"} -> 502
      [] up.status \in 200..299 -> 200
      [] OTHER -> up.status

\* C10, as amended: after the upstream call the status is 200 for a 2xx answer
\* with a readable JSON reply, the upstream status for a non-2xx answer, and
\* 502 when upstream is unreachable or its body cannot be read or, for a 2xx
\* answer, is not JSON or is null; store failures do not change it.
C10_StatusFromUpstream ==
    \A p \in Slots :
        req[p].resp.stage = "upstream" =>
            /\ req[p].up \in UpstreamOutcomes
            /\ req[p].resp.status = ExpectedStatus(req[p].up)

\* a request that met a store failure is answered 201's 200
C10_Witness ==
    \E p \in Slots :
        /\ req[p].pc = "done"
        /\ req[p].fail = "set"
        /\ req[p].up = [kind |-> "response", status |-> 201, body |-> "completion"]
        /\ req[p].resp = Resp(200, "upstream")

\* C10, as stated: upstream 2xx gives 200, upstream non-2xx gives the upstream
\* status, a network-level failure gives 502.
C10_StatusAsStated ==
    \A p \in Slots :
        req[p].resp.stage = "upstream" =>
            /\ req[p].up.kind = "network_error" => req[p].resp.status = 502
            /\ (req[p].up.kind = "response" /\ req[p].up.status \in 200..299
                  /\ req[p].up.body # "unreadable")
               => req[p].resp.status = 200
            /\ (req[p].up.kind = "response" /\ req[p].up.status \notin 200..299
                  /\ req[p].up.body # "unreadable")
               => req[p].resp.status = req[p].up.status

----------------------------------------------------------------------------
(* C11: the upstream request *)

\* the two synthesized turns of a payload and its message
TwoTurns(payload, message) ==
    <<Turn("system", IF payload.systemPrompt # <<>> THEN payload.systemPrompt
                     ELSE DEFAULT_SYSTEM_PROMPT),
      Turn("user", message)>>

TemperatureAsStated(payload, request) ==
    /\ payload.temperature.type = "number" => request.temperature = payload.temperature
    /\ payload.temperature.type # "number" => request.temperature = Num(7)

\* C11 as stated: whenever the payload has a messages array the upstream
\* messages are exactly that array; with only message they are the two turns
\* [system, user]; temperature is payload.temperature when a number, else 0.7.
C11_BuildAsStated ==
    probe.pc = "built" =>
        /\ probe.payload.messages.isArray =>
               probe.openAiRequest.messages = probe.payload.messages.items
        /\ ~probe.payload.messages.isArray =>
               probe.openAiRequest.messages = TwoTurns(probe.payload, probe.event.message)
        /\ TemperatureAsStated(probe.payload, probe.openAiRequest)

\* C11 amended: a non-empty messages array is forwarded exactly as it is; with
\* no messages array, or an empty one, the upstream messages are the two turns
\* [system, user] (payload.systemPrompt or the default prompt, then the message
\* as received); temperature is payload.temperature when a number, else 0.7.
C11_BuildRequest ==
    probe.pc = "built" =>
        /\ (probe.payload.messages.isArray /\ probe.payload.messages.items # <<>>) =>
               probe.openAiRequest.messages = probe.payload.messages.items
        /\ (~probe.payload.messages.isArray \/ probe.payload.messages.items = <<>>) =>
               probe.openAiRequest.messages = TwoTurns(probe.payload, probe.event.message)
        /\ TemperatureAsStated(probe.payload, probe.openAiRequest)

\* an empty messages array with temperature 0: two turns are built and 0 is kept
C11_Witness ==
    /\ probe.pc = "built"
    /\ probe.payload.messages = Messages(<<>>)
    /\ probe.payload.temperature = Num(0)
    /\ Len(probe.openAiRequest.messages) = 2
    /\ probe.openAiRequest.messages[2].content = <<SP, "hi", SP>>
    /\ probe.openAiRequest.temperature = Num(0)

----------------------------------------------------------------------------
(* C12: the identity *)

RECURSIVE FirstNonEmpty(_)
FirstNonEmpty(sources) ==
    IF Len(sources) = 1 \/ Head(sources) # <<>> THEN Head(sources)
    ELSE FirstNonEmpty(Tail(sources))

\* the identity sources of a request, highest priority first
Sources(event) ==
    <<trim(event.userId), trim(firstField(event.xForwardedFor)), event.clientIp,
      event.xRealIp, ANONYMOUS>>

\* C12: the identity is the first non-empty source in the order userId
\* (trimmed), first entry of x-forwarded-for, client-ip, x-real-ip, "anonymous":
\* a lower-priority source is used only when every higher one is absent or
\* empty; and requests with the same identity address the same record.
C12_PriorityOrder ==
    probe.pc \in {"resolved", "built"} =>
        /\ probe.identity = FirstNonEmpty(Sources(probe.event))
        /\ \A e \in IdentityEvents :
               userIdentifier(e) = probe.identity => keyOfEvent(e) = probe.key

----------------------------------------------------------------------------
(* C13: one read, one write, one upstream call, one response *)

\* the request in slot p has been answered
Answered(p) == req[p].resp # NoResp

AtMostOnce(p) == req[p].gets <= 1 /\ req[p].sets <= 1 /\ req[p].fetches <= 1

\* an answered request does nothing more: its response is delivered as it is
OneResponse(p) == Answered(p) => (req'[p] = req[p] \/ req'[p] = Idle)

----------------------------------------------------------------------------
(* C14: the order of the handler's steps *)

\* a POST with the credential configured, a JSON body and a message that is
\* not blank
WellFormed(event) ==
    /\ event.httpMethod = "POST"
    /\ apiKey
    /\ event.bodyIsJson
    /\ \E i \in 1..Len(event.message) : event.message[i] # SP

EarlyStages == {"preflight", "method", "config", "input"}

\* the request in slot p has not touched the store nor called upstream
Untouched(p) == req[p].gets = 0 /\ req[p].sets = 0 /\ req[p].fetches = 0

\* how far each answered or waiting request has got
StepsInOrder(p) ==
    /\ req[p].resp.stage \in EarlyStages =>
           Untouched(p) /\ req[p].resp.status \in {200, 405, 500, 400}
    /\ req[p].resp.stage = "quota" => req[p].resp.status = 429 /\ req[p].fetches = 0
    /\ req[p].pc \in {"get", "set"} => req[p].fetches = 0
    /\ req[p].fetches > 0 =>
           /\ req[p].pc \in {"fetch", "done"}
           /\ req[p].fail = "init" \/ req[p].gets = 1

\* a request that is not well-formed is answered at once, the store and the
\* quota consumed being what they were
EarlyAnswer(p, event, init) ==
    (~WellFormed(event) /\ Start(p, event, init)) =>
        /\ req'[p].pc = "done"
        /\ req'[p].resp.stage \in EarlyStages
        /\ Untouched(p)'
        /\ store' = store
        /\ allowedSince' = allowedSince

\* C14: only a well-formed request (POST, credential, JSON body, non-blank
\* message) reads or writes the store or consumes quota, the others being
\* answered 200, 405, 500 or 400 at once; upstream is called only once the quota
\* decision is made, and never for a request answered 429.
C14_StepsInOrder ==
    /\ [](\A p \in Slots : StepsInOrder(p))
    /\ [][\A p \in Slots, event \in EventsOneIdentity, init \in {"ok", "throw"} :
            EarlyAnswer(p, event, init)]_vars

\* a request answered 400 after an earlier request, the record being at the limit
C14_Witness ==
    \E p \in Slots :
        /\ req[p].resp.stage = "input" /\ Untouched(p)
        /\ started > 1
        /\ store[AliceKey].present /\ store[AliceKey].count = RATE_LIMIT

----------------------------------------------------------------------------
(* C15: a rejected request writes nothing *)

\* the step in which the request in slot p is rejected for quota
Rejection(p) == req[p].pc = "get" /\ req'[p].resp.stage = "quota"

\* the record of key k is at the limit in a window that has not ended
Exhausted(k) ==
    store[k].present /\ store[k].count >= RATE_LIMIT /\ store[k].resetAt > now

\* C15: a request answered 429 has called store.set not once, and neither its
\* rejection nor the delivery of its answer changes any record; so while a
\* record is at the limit and its window has not ended, no request changes its
\* count or its resetAt, however many are rejected.
C15_RejectionWritesNothing ==
    /\ [](\A p \in Slots :
             req[p].resp.stage = "quota" =>
                 req[p].sets = 0 /\ req[p].setAt = -1 /\ req[p].pending = NULL)
    /\ [][\A p \in Slots :
             (Rejection(p) \/ (req[p].resp.stage = "quota" /\ req'[p] # req[p]))
                 => store' = store]_vars
    /\ [][\A k \in Keys : Exhausted(k) => store'[k] = store[k]]_vars

\* a request rejected a tick or more after the window was opened at time 0: the
\* record still has count 20 and the resetAt given at time 0
C15_Witness ==
    \E p \in Slots :
        /\ req[p].resp.stage = "quota"
        /\ req[p].now >= 1
        /\ store[req[p].key] = Rec(RATE_LIMIT, RATE_LIMIT_WINDOW_MS)
        /\ allowedSince[req[p].key][RATE_LIMIT_WINDOW_MS] = RATE_LIMIT

----------------------------------------------------------------------------
(* C16: the stored count *)

InRange(record) ==
    record.present => record.count \in Nat /\ 1 <= record.count /\ record.count <= RATE_LIMIT

\* C16: every stored record, and every record a request is about to store, has
\* an integer count from 1 to 20, whatever the interleaving of concurrent
\* requests and whichever store calls fail.
C16_CountInRange ==
    /\ \A k \in Keys : InRange(store[k])
    /\ \A p \in Slots : InRange(req[p].pending)

\* two concurrent requests both read count 19; the store.set of one failed and
\* the other stored 20
C16_Witness ==
    \E p, q \in Slots :
        /\ p # q
        /\ req[p].record.present /\ req[p].record.count = RATE_LIMIT - 1
        /\ req[q].record.present /\ req[q].record.count = RATE_LIMIT - 1
        /\ req[p].pc = "fetch" /\ req[p].fail = "set"
        /\ req[q].pc = "fetch" /\ req[q].setAt >= 0
        /\ store[req[q].key].count = RATE_LIMIT

----------------------------------------------------------------------------
(* C17: quota is consumed before the upstream call and never given back *)

\* the request in slot p was answered from a failed upstream call
UpstreamFailed(p) == req[p].resp.stage = "upstream" /\ req[p].resp.status # 200

\* the stored count of key k is the number of requests allowed in its window
CountsEveryAllowed(k) ==
    store[k].present =>
        /\ store[k].resetAt \in DOMAIN allowedSince[k]
        /\ store[k].count = allowedSince[k][store[k].resetAt]

\* C17: with an upstream API that fails every call, a request has stored its
\* increment when it calls upstream, no step after that call changes the
\* store, so the stored count is always the number of requests allowed in the
\* window although none of them got a reply, and the request that finds 20 is
\* answered 429.
C17_ConsumedAndKept ==
    /\ [](\A p \in Slots :
             /\ req[p].pc = "fetch" =>
                    req[p].sets = 1 /\ req[p].setAt >= 0 /\ store[req[p].key] = req[p].pending
             /\ req[p].resp.stage = "upstream" => UpstreamFailed(p) /\ req[p].sets = 1
             /\ req[p].resp.stage = "quota" =>
                    /\ req[p].record.count = RATE_LIMIT
                    /\ allowedSince[req[p].key][req[p].record.resetAt] = RATE_LIMIT)
    /\ [](\A k \in Keys : CountsEveryAllowed(k))
    /\ [][\A p \in Slots :
             (req[p].pc \in {"fetch", "done"} /\ req'[p] # req[p]) => store' = store]_vars

\* the 21st request of the first window is answered 429 although no request
\* before it got a reply
C17_Witness ==
    \E p \in Slots :
        /\ req[p].resp.stage = "quota"
        /\ req[p].resp.status = 429
        /\ req[p].record = Rec(RATE_LIMIT, RATE_LIMIT_WINDOW_MS)
        /\ store[req[p].key] = req[p].record

====
